---- MODULE Spec2Model ----
(***************************************************************************)
(* Model of the live transcription page (src/pages/LiveTranscriptionPage.js,*)
(* kept as src/unnamed/part_007): the capture pipeline, the WebSocket       *)
(* session, the translation fan-out and the column store.                   *)
(*                                                                          *)
(* The page is a React function component.  Every handler is a closure of   *)
(* the render that created it: it reads the isLive / columns of THAT render.*)
(* Handlers the user triggers belong to the latest render, so they read the *)
(* current state; handlers stored elsewhere (the function given to          *)
(* setTimeout, the stopLive referenced by ws.onerror) keep the values of    *)
(* the render in which they were created.  Those captured values are        *)
(* explicit fields below (timers[i].live, sockets[i].liveAtOpen).           *)
(* One action is one run-to-completion task of the event loop.              *)
(***************************************************************************)
EXTENDS Integers, Sequences, FiniteSets, TLC

(* ------------------------------ bounds ---------------------------------- *)
MaxSockets == 2        \* WebSockets created in one behaviour
MaxInputs  == 4        \* fragments, unparsable messages and column edits in one behaviour
MaxTimers  == 1        \* restart timers pending at the same time
MaxNow     == 2        \* distinct readings of the millisecond clock
MaxFails   == 1        \* translation calls that fail in one behaviour
MaxBlocks  == 2        \* audio blocks delivered to onaudioprocess in one behaviour
MaxSamples == 2        \* samples in a block handed to the encoder

(* ----------------------------- constants -------------------------------- *)
MaxTargets == 2
BlockSamples == 4096
TargetRate == 16000
ChunkBytes == 320
SampleRates == {16000, 48000}
LanguageOptions == {"en", "zh_CN"}
SourceOptions == {"auto"} \cup LanguageOptions
Texts == {"a"}

VARIABLES
    isLive,        \* useState(false)
    wsConnected,   \* useState(false)
    isProcessing,  \* useState(false)
    columns,       \* useState([original]); colsRef.current is the same list
    wsRef,         \* index into sockets, 0 = null
    streamRef,     \* index into handles, 0 = null
    sockets,       \* every WebSocket created so far, in creation order
    handles,       \* every capture handle acquired so far: its release log
    starts,        \* startLive invocations suspended at `await attachMic()`
    timers,        \* FIFO of pending setTimeout(startLive, 200) closures
    inflight,      \* translateText calls not yet settled
    nFrags,        \* number of fragments received so far
    lastAlert,     \* last alert() shown
    mounted,       \* the component is mounted
    now,           \* the latest reading of Date.now()
    nEdits,        \* number of column edits so far
    nFails,        \* number of failed translation calls so far
    sent,          \* every frame passed to WebSocket.send, in order
    nBlocks,       \* number of audio blocks processed so far
    sendError,     \* a WebSocket.send call has thrown
    nBad,          \* number of console.error calls made by ws.onmessage
    pcmIn,         \* the samples last handed to floatTo16BitPCM, in 1/1000
    pcmOut,        \* the bytes of the buffer it returned
    clearedUpTo    \* history: number of fragments received before the last clear-all

vars == <<isLive, wsConnected, isProcessing, columns, wsRef, streamRef,
          sockets, handles, starts, timers, inflight, nFrags, lastAlert,
          mounted, now, nEdits, nFails, sent, nBlocks, sendError, nBad,
          pcmIn, pcmOut, clearedUpTo>>

audioVars == <<sent, nBlocks, sendError>>

storeVars == <<columns, inflight, nFrags>>

sessVars == <<isLive, wsConnected, wsRef, streamRef, sockets, handles>>

(* --------------------------- pure helpers ------------------------------- *)
mapLangForServer(region) ==
    IF region \in {"zh_CN", "zh_TW"} THEN "zh" ELSE region

\* A line of text: the fragment `base`, translated along `via` (<<>> = not
\* translated).  `frag` is the arrival number of the fragment it stems from.
RawLine(text, n) == [base |-> text, via |-> <<>>, frag |-> n]

translateText(text, src, tgt, ok, n) ==
    IF ok
    THEN [base |-> text, via |-> <<mapLangForServer(src), mapLangForServer(tgt)>>, frag |-> n]
    ELSE RawLine(text, n)

\* A plausible slip: the new column is spread from the initial column and
\* keeps its isOriginal flag.
newCol_original(clock) ==
    [id |-> ToString(clock), lang |-> "en", lines |-> <<>>, isOriginal |-> TRUE,
     uid |-> 0, born |-> 0]

\* Besides the fields of the source a column carries two history fields:
\* `uid`, the ordinal of the edit that created it (0 for the initial column),
\* and `born`, the number of fragments received before it was created.
newCol(clock) ==
    [id |-> ToString(clock), lang |-> "en", lines |-> <<>>, isOriginal |-> FALSE,
     uid |-> 0, born |-> 0]

OriginalCol ==
    [id |-> "original", lang |-> "auto", lines |-> <<>>, isOriginal |-> TRUE,
     uid |-> 0, born |-> 0]

ColIdx == 1..Len(columns)

SrcLangOf(cols) ==
    IF \E i \in 1..Len(cols) : cols[i].isOriginal
    THEN LET i == CHOOSE k \in 1..Len(cols) :
                     /\ cols[k].isOriginal
                     /\ \A j \in 1..(k - 1) : ~cols[j].isOriginal
         IN cols[i].lang
    ELSE "auto"

RECURSIVE FilterSeq(_, _)
FilterSeq(s, keep) ==
    IF s = <<>> THEN <<>>
    ELSE IF keep[1] THEN <<Head(s)>> \o FilterSeq(Tail(s), Tail(keep))
         ELSE FilterSeq(Tail(s), Tail(keep))

NumTargets(cols) == Cardinality({i \in 1..Len(cols) : ~cols[i].isOriginal})

(* ---------------------- session: sockets and capture -------------------- *)
Sess ==
    [isLive |-> isLive, wsConnected |-> wsConnected, wsRef |-> wsRef,
     streamRef |-> streamRef, sockets |-> sockets, handles |-> handles]

SetSess(s) ==
    /\ isLive' = s.isLive
    /\ wsConnected' = s.wsConnected
    /\ wsRef' = s.wsRef
    /\ streamRef' = s.streamRef
    /\ sockets' = s.sockets
    /\ handles' = s.handles

\* WebSocket.close(): CONNECTING and OPEN become CLOSING; the close event
\* is delivered later (WsClose).
WsCloseCall(state) ==
    IF state \in {"CONNECTING", "OPEN"} THEN "CLOSING" ELSE state

\* A plausible slip: the reference is not cleared after close().
closeSocket_keepRef(s) ==
    [s EXCEPT !.sockets = IF s.wsRef # 0
                          THEN [s.sockets EXCEPT ![s.wsRef].state = WsCloseCall(@)]
                          ELSE s.sockets,
              !.wsConnected = FALSE]

closeSocket(s) ==
    [s EXCEPT !.sockets = IF s.wsRef # 0
                          THEN [s.sockets EXCEPT ![s.wsRef].state = WsCloseCall(@)]
                          ELSE s.sockets,
              !.wsRef = 0,
              !.wsConnected = FALSE]

\* A plausible slip: the audio context is closed before the processing
\* node is disconnected.
stopLive_ctxFirst(s, live) ==
    IF ~live THEN s
    ELSE LET s1 == closeSocket([s EXCEPT !.isLive = FALSE])
         IN IF s1.streamRef # 0
            THEN [s1 EXCEPT !.handles[s1.streamRef] = @ \o <<"ctx", "proc", "tracks">>,
                            !.streamRef = 0]
            ELSE s1

\* A plausible slip: the `if (!isLive) return` guard is missing.
stopLive_noGuard(s, live) ==
    LET s1 == closeSocket([s EXCEPT !.isLive = FALSE])
    IN IF s1.streamRef # 0
       THEN [s1 EXCEPT !.handles[s1.streamRef] = @ \o <<"proc", "ctx", "tracks">>,
                       !.streamRef = 0]
       ELSE s1

\* stopLive of a render whose isLive was `live`.  A handle's log records
\* proc.disconnect(), ctx.close() and the stopping of the tracks in the
\* order in which they are executed.
stopLive(s, live) ==
    IF ~live THEN s
    ELSE LET s1 == closeSocket([s EXCEPT !.isLive = FALSE])
         IN IF s1.streamRef # 0
            THEN [s1 EXCEPT !.handles[s1.streamRef] = @ \o <<"proc", "ctx", "tracks">>,
                            !.streamRef = 0]
            ELSE s1

\* A plausible slip: the previous socket is not closed first.
openSocket_noClose(s, srcLang, live) ==
    LET ws == [state |-> "CONNECTING", srcLang |-> srcLang, liveAtOpen |-> live]
    IN [s EXCEPT !.sockets = Append(s.sockets, ws),
                 !.wsRef = Len(s.sockets) + 1]

\* openSocket of a render whose isLive was `live` (kept by ws.onerror).
openSocket(s, srcLang, live) ==
    LET s1 == closeSocket(s)
        ws == [state |-> "CONNECTING", srcLang |-> srcLang, liveAtOpen |-> live]
    IN [s1 EXCEPT !.sockets = Append(s1.sockets, ws),
                  !.wsRef = Len(s1.sockets) + 1]

Active(ws) == ws.state \in {"CONNECTING", "OPEN"}
ActiveSockets == {i \in 1..Len(sockets) : Active(sockets[i])}
LiveHandles == {h \in 1..Len(handles) : handles[h] = <<>>}

(* ------------------------------- Init ----------------------------------- *)
Init ==
    /\ isLive = FALSE
    /\ wsConnected = FALSE
    /\ isProcessing = FALSE
    /\ columns = <<OriginalCol>>
    /\ wsRef = 0
    /\ streamRef = 0
    /\ sockets = <<>>
    /\ handles = <<>>
    /\ starts = {}
    /\ timers = <<>>
    /\ inflight = {}
    /\ nFrags = 0
    /\ lastAlert = "none"
    /\ mounted = TRUE
    /\ now = 1
    /\ nEdits = 0
    /\ nFails = 0
    /\ sent = <<>>
    /\ nBlocks = 0
    /\ sendError = FALSE
    /\ nBad = 0
    /\ pcmIn = <<>>
    /\ pcmOut = <<>>
    /\ clearedUpTo = 0

(* ------------------------------ startLive ------------------------------- *)
\* The synchronous part of startLive up to `await attachMic()`, run by a
\* closure that captured isLive = live and a source language srcLang.
startLiveBegin(live, srcLang) ==
    IF live
    THEN UNCHANGED <<isLive, wsConnected, isProcessing, wsRef, streamRef,
                     sockets, handles, starts>>
    ELSE /\ isProcessing' = TRUE
         /\ SetSess(openSocket(Sess, srcLang, live))
         /\ starts' = starts \cup {[sock |-> Len(sockets) + 1]}

\* Start button: enabled unless isLive or isProcessing.
StartLive ==
    /\ mounted
    /\ ~isLive /\ ~isProcessing
    /\ Len(sockets) < MaxSockets
    /\ startLiveBegin(isLive, SrcLangOf(columns))
    /\ UNCHANGED <<columns, timers, inflight, nFrags, lastAlert, mounted, now, nEdits, nFails,
                   sent, nBlocks, sendError, nBad,
                   pcmIn, pcmOut, clearedUpTo>>

\* The timer set by changeSrcLang fires: startLive of the render in which
\* changeSrcLang ran.
TimerFire ==
    /\ timers # <<>>
    /\ Head(timers).live \/ Len(sockets) < MaxSockets
    /\ startLiveBegin(Head(timers).live, Head(timers).lang)
    /\ timers' = Tail(timers)
    /\ UNCHANGED <<columns, inflight, nFrags, lastAlert, mounted, now, nEdits, nFails,
                   sent, nBlocks, sendError, nBad,
                   pcmIn, pcmOut, clearedUpTo>>

\* A plausible slip: setIsProcessing(false) sits in the catch branch only.
MicGranted_noFinally(a) ==
    /\ a \in starts
    /\ handles' = Append(handles, <<>>)
    /\ streamRef' = Len(handles) + 1
    /\ isLive' = TRUE
    /\ starts' = starts \ {a}
    /\ UNCHANGED <<wsConnected, isProcessing, columns, wsRef, sockets, timers,
                   inflight, nFrags, lastAlert, mounted, now, nEdits, nFails,
                   sent, nBlocks, sendError, nBad,
                   pcmIn, pcmOut, clearedUpTo>>

\* getUserMedia resolves: rest of attachMic, then setIsLive(true), finally.
MicGranted(a) ==
    /\ a \in starts
    /\ handles' = Append(handles, <<>>)
    /\ streamRef' = Len(handles) + 1
    /\ isLive' = TRUE
    /\ isProcessing' = FALSE
    /\ starts' = starts \ {a}
    /\ UNCHANGED <<wsConnected, columns, wsRef, sockets, timers, inflight,
                   nFrags, lastAlert, mounted, now, nEdits, nFails,
                   sent, nBlocks, sendError, nBad,
                   pcmIn, pcmOut, clearedUpTo>>

\* A plausible slip: the catch branch does not close the socket.
MicDenied_noClose(a) ==
    /\ a \in starts
    /\ lastAlert' = "mic"
    /\ isProcessing' = FALSE
    /\ starts' = starts \ {a}
    /\ UNCHANGED <<isLive, wsConnected, wsRef, streamRef, sockets, handles,
                   columns, timers, inflight, nFrags, mounted, now, nEdits, nFails,
                   sent, nBlocks, sendError, nBad,
                   pcmIn, pcmOut, clearedUpTo>>

\* getUserMedia rejects: catch branch, finally.
MicDenied(a) ==
    /\ a \in starts
    /\ lastAlert' = "mic"
    /\ SetSess(closeSocket(Sess))
    /\ isProcessing' = FALSE
    /\ starts' = starts \ {a}
    /\ UNCHANGED <<columns, timers, inflight, nFrags, mounted, now, nEdits, nFails,
                   sent, nBlocks, sendError, nBad,
                   pcmIn, pcmOut, clearedUpTo>>

\* A plausible slip: stopping aborts the translation calls in flight.
StopLive_cancel ==
    /\ mounted
    /\ isLive
    /\ SetSess(stopLive(Sess, isLive))
    /\ inflight' = {}
    /\ UNCHANGED <<isProcessing, columns, starts, timers, nFrags,
                   lastAlert, mounted, now, nEdits, nFails,
                   sent, nBlocks, sendError, nBad,
                   pcmIn, pcmOut, clearedUpTo>>

\* Stop button: enabled while isLive.
StopLive ==
    /\ mounted
    /\ isLive
    /\ SetSess(stopLive(Sess, isLive))
    /\ UNCHANGED <<isProcessing, columns, starts, timers, inflight, nFrags,
                   lastAlert, mounted, now, nEdits, nFails,
                   sent, nBlocks, sendError, nBad,
                   pcmIn, pcmOut, clearedUpTo>>

\* useEffect(() => () => stopLive(), [stopLive]) at unmount: the stopLive of
\* the latest render.  (The same cleanup also runs after every change of
\* isLive with the previous render's stopLive; there it is either the
\* isLive = false closure, or it repeats a stop that has just happened.)
Unmount ==
    /\ mounted
    /\ mounted' = FALSE
    /\ SetSess(stopLive(Sess, isLive))
    /\ UNCHANGED <<isProcessing, columns, starts, timers, inflight, nFrags,
                   lastAlert, now, nEdits, nFails,
                   sent, nBlocks, sendError, nBad,
                   pcmIn, pcmOut, clearedUpTo>>

(* --------------------------- socket events ------------------------------ *)
WsOpen(c) ==
    /\ c \in 1..Len(sockets)
    /\ sockets[c].state = "CONNECTING"
    /\ sockets' = [sockets EXCEPT ![c].state = "OPEN"]
    /\ wsConnected' = TRUE
    /\ UNCHANGED <<isLive, isProcessing, columns, wsRef, streamRef, handles,
                   starts, timers, inflight, nFrags, lastAlert, mounted, now, nEdits, nFails,
                   sent, nBlocks, sendError, nBad,
                   pcmIn, pcmOut, clearedUpTo>>

\* A plausible slip: the close handler opens a connection again.
WsClose_reconnect(c) ==
    /\ c \in 1..Len(sockets)
    /\ sockets[c].state \in {"OPEN", "CLOSING"}
    /\ SetSess(openSocket([Sess EXCEPT !.sockets[c].state = "CLOSED",
                                       !.wsConnected = FALSE],
                          sockets[c].srcLang, sockets[c].liveAtOpen))
    /\ UNCHANGED <<isProcessing, columns, starts, timers, inflight, nFrags,
                   lastAlert, mounted, now, nEdits, nFails,
                   sent, nBlocks, sendError, nBad,
                   pcmIn, pcmOut, clearedUpTo>>

\* Close event without error: the server closed an open socket, or the
\* closing handshake started by close() has finished.
WsClose(c) ==
    /\ c \in 1..Len(sockets)
    /\ sockets[c].state \in {"OPEN", "CLOSING"}
    /\ sockets' = [sockets EXCEPT ![c].state = "CLOSED"]
    /\ wsConnected' = FALSE
    /\ UNCHANGED <<isLive, isProcessing, columns, wsRef, streamRef, handles,
                   starts, timers, inflight, nFrags, lastAlert, mounted, now, nEdits, nFails,
                   sent, nBlocks, sendError, nBad,
                   pcmIn, pcmOut, clearedUpTo>>

\* The connection fails: readyState becomes CLOSED, then the error event
\* and the close event are dispatched in the same task.
WsError(c) ==
    /\ c \in 1..Len(sockets)
    /\ sockets[c].state \in {"CONNECTING", "OPEN", "CLOSING"}
    /\ LET s0 == [Sess EXCEPT !.sockets[c].state = "CLOSED"]
           s1 == stopLive([s0 EXCEPT !.wsConnected = FALSE], sockets[c].liveAtOpen)
           s2 == [s1 EXCEPT !.wsConnected = FALSE]
       IN SetSess(s2)
    /\ UNCHANGED <<isProcessing, columns, starts, timers, inflight, nFrags,
                   lastAlert, mounted, now, nEdits, nFails,
                   sent, nBlocks, sendError, nBad,
                   pcmIn, pcmOut, clearedUpTo>>

(* ------------------------ inbound messages, fan-out --------------------- *)
\* Data of a message event: text that JSON.parse rejects, or a JSON object
\* whose transcript field is a string or an object with a text field.
\* An inbound message: data that JSON.parse rejects ("malformed"), or a
\* parsed message by the shape of its transcript field.  `text` is the
\* field's content written as text: the number 5 and the boolean true are
\* "5" and "true", no string fragment has these texts.
Messages ==
    [kind : {"malformed", "missing", "null", "objectNoText"}, text : {""}]
    \cup [kind : {"string", "object"}, text : Texts \cup {""}]
    \cup [kind : {"number"}, text : {"0", "5"}]
    \cup [kind : {"boolean"}, text : {"false", "true"}]

\* The messages of a server that follows the protocol.
TextMessages == [kind : {"string", "object"}, text : Texts \cup {""}]

\* JSON.parse(data) returns.
Parses(msg) == msg.kind # "malformed"

\* raw = typeof transcript === "object" ? transcript?.text : transcript;
\* "" stands for every falsy raw (undefined, null, "", 0, false).
RawOf(msg) ==
    CASE msg.kind \in {"malformed", "missing", "null", "objectNoText"} -> ""
      [] msg.kind = "number" -> IF msg.text = "0" THEN "" ELSE msg.text
      [] msg.kind = "boolean" -> IF msg.text = "false" THEN "" ELSE msg.text
      [] OTHER -> msg.text

\* A plausible slip: the catch branch tears the connection down as
\* ws.onerror does.
OnParseError_close(s) ==
    closeSocket(s)

\* catch (err) { console.error(err); }
OnParseError(s) ==
    s

\* A plausible slip: the source language is read from the columns when the
\* message arrives instead of being the one openSocket was called with.
FanOut_currentLang(cols, raw, srcLang, n) ==
    {[col |-> cols[i].id, uid |-> cols[i].uid, tgt |-> cols[i].lang,
      src |-> SrcLangOf(cols), text |-> raw, frag |-> n] :
        i \in {k \in 1..Len(cols) : ~cols[k].isOriginal}}

\* The calls started by colsRef.current.forEach for fragment number n.
FanOut(cols, raw, srcLang, n) ==
    {[col |-> cols[i].id, uid |-> cols[i].uid, tgt |-> cols[i].lang, src |-> srcLang,
      text |-> raw, frag |-> n] : i \in {k \in 1..Len(cols) : ~cols[k].isOriginal}}

\* A plausible slip: the new line is put in front ([line, ...c.lines]).
AppendLine_prepend(c, line) ==
    [c EXCEPT !.lines = <<line>> \o @]

AppendLine(c, line) == [c EXCEPT !.lines = Append(@, line)]

\* A plausible slip: the source line is left to the translation callbacks.
AppendToOriginal_skip(cols, line) ==
    cols

AppendToOriginal(cols, line) ==
    [i \in 1..Len(cols) |->
        IF cols[i].isOriginal THEN AppendLine(cols[i], line) ELSE cols[i]]

AppendToId(cols, id, line) ==
    [i \in 1..Len(cols) |->
        IF cols[i].id = id THEN AppendLine(cols[i], line) ELSE cols[i]]

WsMessage(c, msg) ==
    /\ c \in 1..Len(sockets)
    /\ sockets[c].state = "OPEN"
    /\ msg \in Messages
    /\ IF ~Parses(msg)
       THEN /\ nFrags + nEdits + nBad < MaxInputs
            /\ nBad' = nBad + 1
            /\ SetSess(OnParseError(Sess))
            /\ UNCHANGED storeVars
       ELSE /\ UNCHANGED <<sessVars, nBad>>
            /\ IF RawOf(msg) = ""
               THEN UNCHANGED storeVars
               ELSE /\ nFrags + nEdits + nBad < MaxInputs
                    /\ nFrags' = nFrags + 1
                    /\ columns' = AppendToOriginal(columns,
                                       RawLine(RawOf(msg), nFrags + 1))
                    /\ inflight' = inflight \cup
                           FanOut(columns, RawOf(msg), sockets[c].srcLang, nFrags + 1)
    /\ UNCHANGED <<isProcessing, starts, timers, lastAlert, mounted, now,
                   nEdits, nFails, sent, nBlocks, sendError,
                   pcmIn, pcmOut, clearedUpTo>>

\* A translateText call settles (ok: the fetch returned a translation;
\* otherwise the catch branch returns the text itself) and its line is
\* appended by column id.
Settle(t, ok) ==
    /\ t \in inflight
    /\ ok \/ nFails < MaxFails
    /\ nFails' = IF ok THEN nFails ELSE nFails + 1
    /\ inflight' = inflight \ {t}
    /\ columns' = AppendToId(columns, t.col,
                             translateText(t.text, t.src, t.tgt, ok, t.frag))
    /\ UNCHANGED <<isLive, wsConnected, isProcessing, wsRef, streamRef,
                   sockets, handles, starts, timers, nFrags, lastAlert,
                   mounted, now, nEdits,
                   sent, nBlocks, sendError, nBad,
                   pcmIn, pcmOut, clearedUpTo>>

(* ---------------------------- column actions ---------------------------- *)
clearOutputs(cols) ==
    [i \in 1..Len(cols) |-> [cols[i] EXCEPT !.lines = <<>>]]

removeColumn(cols, id) ==
    FilterSeq(cols, [i \in 1..Len(cols) |-> cols[i].id # id])

changeLang(cols, id, lang) ==
    [i \in 1..Len(cols) |->
        IF cols[i].id = id THEN [cols[i] EXCEPT !.lang = lang, !.lines = <<>>]
        ELSE cols[i]]

setSrcLang(cols, lang) ==
    [i \in 1..Len(cols) |->
        IF cols[i].isOriginal THEN [cols[i] EXCEPT !.lang = lang] ELSE cols[i]]

\* lineIndex is 0-based in the source, k = lineIndex + 1 here.
deleteLine(cols, id, k) ==
    [i \in 1..Len(cols) |->
        IF cols[i].id = id
        THEN [cols[i] EXCEPT !.lines =
                 FilterSeq(@, [j \in 1..Len(@) |-> j # k])]
        ELSE cols[i]]

ClearOutputs ==
    /\ mounted
    /\ nFrags + nEdits + nBad < MaxInputs
    /\ nEdits' = nEdits + 1
    /\ columns' = clearOutputs(columns)
    /\ clearedUpTo' = nFrags
    /\ UNCHANGED <<isLive, wsConnected, isProcessing, wsRef, streamRef,
                   sockets, handles, starts, timers, inflight, nFrags,
                   lastAlert, mounted, now, nFails,
                   sent, nBlocks, sendError, nBad,
                   pcmIn, pcmOut>>

\* A plausible slip: the limit test is `>` instead of `>=`.
AddColumn_offByOne(t) ==
    /\ mounted
    /\ nFrags + nEdits + nBad < MaxInputs
    /\ nEdits' = nEdits + 1
    /\ t \in now..MaxNow
    /\ IF NumTargets(columns) > MaxTargets
       THEN /\ lastAlert' = "max"
            /\ UNCHANGED <<columns, now>>
       ELSE /\ columns' = Append(columns, [newCol(t) EXCEPT !.uid = nEdits + 1,
                                                            !.born = nFrags])
            /\ now' = t
            /\ UNCHANGED lastAlert
    /\ UNCHANGED <<isLive, wsConnected, isProcessing, wsRef, streamRef,
                   sockets, handles, starts, timers, inflight, nFrags,
                   mounted, nFails,
                   sent, nBlocks, sendError, nBad,
                   pcmIn, pcmOut, clearedUpTo>>

\* The add button, pressed when Date.now() reads t.
AddColumn(t) ==
    /\ mounted
    /\ nFrags + nEdits + nBad < MaxInputs
    /\ nEdits' = nEdits + 1
    /\ t \in now..MaxNow
    /\ IF NumTargets(columns) >= MaxTargets
       THEN /\ lastAlert' = "max"
            /\ UNCHANGED <<columns, now>>
       ELSE /\ columns' = Append(columns, [newCol(t) EXCEPT !.uid = nEdits + 1,
                                                            !.born = nFrags])
            /\ now' = t
            /\ UNCHANGED lastAlert
    /\ UNCHANGED <<isLive, wsConnected, isProcessing, wsRef, streamRef,
                   sockets, handles, starts, timers, inflight, nFrags,
                   mounted, nFails,
                   sent, nBlocks, sendError, nBad,
                   pcmIn, pcmOut, clearedUpTo>>

\* The remove button of the column shown at position i.
RemoveColumn(i) ==
    /\ mounted
    /\ nFrags + nEdits + nBad < MaxInputs
    /\ nEdits' = nEdits + 1
    /\ i \in ColIdx
    /\ ~columns[i].isOriginal
    /\ columns' = removeColumn(columns, columns[i].id)
    /\ UNCHANGED <<isLive, wsConnected, isProcessing, wsRef, streamRef,
                   sockets, handles, starts, timers, inflight, nFrags,
                   lastAlert, mounted, now, nFails,
                   sent, nBlocks, sendError, nBad,
                   pcmIn, pcmOut, clearedUpTo>>

\* The language select of the target column shown at position i.
ChangeLang(i, lang) ==
    /\ mounted
    /\ nFrags + nEdits + nBad < MaxInputs
    /\ nEdits' = nEdits + 1
    /\ i \in ColIdx
    /\ ~columns[i].isOriginal
    /\ lang \in LanguageOptions \ {columns[i].lang}
    /\ columns' = changeLang(columns, columns[i].id, lang)
    /\ UNCHANGED <<isLive, wsConnected, isProcessing, wsRef, streamRef,
                   sockets, handles, starts, timers, inflight, nFrags,
                   lastAlert, mounted, now, nFails,
                   sent, nBlocks, sendError, nBad,
                   pcmIn, pcmOut, clearedUpTo>>

\* The language select of the source column: setColumns, stopLive of this
\* render, and a timer holding startLive of this render (its isLive and its
\* columns are the ones before this call).
ChangeSrcLang(lang) ==
    /\ mounted
    /\ lang \in SourceOptions \ {SrcLangOf(columns)}
    /\ Len(timers) < MaxTimers
    /\ columns' = setSrcLang(columns, lang)
    /\ SetSess(stopLive(Sess, isLive))
    /\ timers' = Append(timers, [live |-> isLive, lang |-> SrcLangOf(columns)])
    /\ UNCHANGED <<isProcessing, starts, inflight, nFrags, lastAlert,
                   mounted, now, nEdits, nFails, sent, nBlocks, sendError, nBad,
                   pcmIn, pcmOut, clearedUpTo>>

\* The delete button of line k of the column shown at position i.
DeleteLine(i, k) ==
    /\ mounted
    /\ nFrags + nEdits + nBad < MaxInputs
    /\ nEdits' = nEdits + 1
    /\ i \in ColIdx
    /\ k \in 1..Len(columns[i].lines)
    /\ columns' = deleteLine(columns, columns[i].id, k)
    /\ UNCHANGED <<isLive, wsConnected, isProcessing, wsRef, streamRef,
                   sockets, handles, starts, timers, inflight, nFrags,
                   lastAlert, mounted, now, nFails,
                   sent, nBlocks, sendError, nBad,
                   pcmIn, pcmOut, clearedUpTo>>

(* ------------------------------ audio path ------------------------------ *)
\* Length of downsampleBuffer(block, rate, 16000): the block itself when the
\* rates agree, otherwise one output sample per rate/16000 input samples.
downsampleLen(n, rate) ==
    IF rate = TargetRate THEN n ELSE (n * TargetRate) \div rate

\* Byte length of floatTo16BitPCM(samples).buffer.
pcmBytes(nSamples) == 2 * nSamples

Min(a, b) == IF a < b THEN a ELSE b

\* for (i = 0; i < len; i += 320) pcm.slice(i, i + 320): offset and size of
\* every slice, in loop order.
Slices(len) ==
    [k \in 1..((len + ChunkBytes - 1) \div ChunkBytes) |->
        [off |-> (k - 1) * ChunkBytes,
         size |-> Min(ChunkBytes, len - (k - 1) * ChunkBytes)]]

\* WebSocket.send: InvalidStateError while CONNECTING, queued while OPEN,
\* discarded while CLOSING or CLOSED.
WsSendThrows(state) == state = "CONNECTING"
WsSendQueues(state) == state = "OPEN"

\* A plausible slip: the readyState test is missing.
MaySend_noReadyState(ref, socks) ==
    ref # 0

\* wsRef.current && wsRef.current.readyState === 1
MaySend(ref, socks) ==
    ref # 0 /\ socks[ref].state = "OPEN"

\* A plausible slip: the loop walks the buffer from its end.
SendOrder_reversed(n) ==
    [k \in 1..n |-> n + 1 - k]

\* The order in which the loop visits the slices.
SendOrder(n) ==
    [k \in 1..n |-> k]

\* proc.onaudioprocess of the live handle h, for a context running at `rate`.
AudioProcess(h, rate) ==
    /\ h \in LiveHandles
    /\ rate \in SampleRates
    /\ nBlocks < MaxBlocks
    /\ nBlocks' = nBlocks + 1
    /\ LET sl == Slices(pcmBytes(downsampleLen(BlockSamples, rate)))
           ord == SendOrder(Len(sl))
       IN IF MaySend(wsRef, sockets)
          THEN /\ sendError' = (sendError \/ WsSendThrows(sockets[wsRef].state))
               /\ sent' = IF WsSendQueues(sockets[wsRef].state)
                          THEN sent \o [k \in 1..Len(sl) |->
                                   [sock |-> wsRef, block |-> nBlocks + 1,
                                    off |-> sl[ord[k]].off, size |-> sl[ord[k]].size]]
                          ELSE sent
          ELSE UNCHANGED <<sent, sendError>>
    /\ UNCHANGED <<isLive, wsConnected, isProcessing, columns, wsRef,
                   streamRef, sockets, handles, starts, timers, inflight,
                   nFrags, lastAlert, mounted, now, nEdits, nFails, nBad,
                   pcmIn, pcmOut, clearedUpTo>>

(* ------------------------------ PCM encoder ----------------------------- *)
\* Samples are fixed-point numbers in units of 1/1000: 1000 is 1.0.
Samples == {-2000, -1500, -1001, -1000, -500, 0, 500, 1000, 1001, 1500, 2000}

Blocks == UNION {[1..n -> Samples] : n \in 1..MaxSamples}

\* Math.max(-1, Math.min(1, x))
Clamp(x) == IF x < -1000 THEN -1000 ELSE IF x > 1000 THEN 1000 ELSE x

\* Truncation toward zero of a / b, b > 0.
Trunc(a, b) == IF a < 0 THEN -((-a) \div b) ELSE a \div b

\* Storing a number in a 16-bit signed slot keeps it modulo 2^16.
ToInt16(v) == ((v + 32768) % 65536) - 32768

\* A plausible slip: the sample is scaled without being clamped.
EncodeSample_noClamp(x) ==
    ToInt16(IF x < 0 THEN Trunc(x * 32768, 1000) ELSE Trunc(x * 32767, 1000))

\* One sample: clamped to [-1, 1], scaled to the 16-bit range.
EncodeSample(x) ==
    LET c == Clamp(x)
    IN ToInt16(IF c < 0 THEN Trunc(c * 32768, 1000) ELSE Trunc(c * 32767, 1000))

\* The little-endian bytes of floatTo16BitPCM(block).buffer.
floatTo16BitPCM(block) ==
    [k \in 1..(2 * Len(block)) |->
        LET u == EncodeSample(block[(k + 1) \div 2]) % 65536
        IN IF k % 2 = 1 THEN u % 256 ELSE u \div 256]

\* new Uint8Array(floatTo16BitPCM(down).buffer) for one block of samples.
Encode(block) ==
    /\ block \in Blocks
    /\ pcmIn' = block
    /\ pcmOut' = floatTo16BitPCM(block)
    /\ UNCHANGED <<isLive, wsConnected, isProcessing, columns, wsRef,
                   streamRef, sockets, handles, starts, timers, inflight,
                   nFrags, lastAlert, mounted, now, nEdits, nFails, sent,
                   nBlocks, sendError, nBad, clearedUpTo>>

Next ==
    \/ StartLive
    \/ TimerFire
    \/ \E a \in starts : MicGranted(a)
    \/ \E a \in starts : MicDenied(a)
    \/ StopLive
    \/ Unmount
    \/ \E c \in 1..Len(sockets) : WsOpen(c)
    \/ \E c \in 1..Len(sockets) : WsClose(c)
    \/ \E c \in 1..Len(sockets) : WsError(c)
    \/ \E c \in 1..Len(sockets), msg \in Messages : WsMessage(c, msg)
    \/ \E t \in inflight, ok \in BOOLEAN : Settle(t, ok)
    \/ ClearOutputs
    \/ \E t \in 1..MaxNow : AddColumn(t)
    \/ \E i \in ColIdx : RemoveColumn(i)
    \/ \E i \in ColIdx, lang \in LanguageOptions : ChangeLang(i, lang)
    \/ \E lang \in SourceOptions : ChangeSrcLang(lang)
    \/ \E i \in ColIdx : \E k \in 1..Len(columns[i].lines) : DeleteLine(i, k)
    \/ \E h \in 1..Len(handles), rate \in SampleRates : AudioProcess(h, rate)
    \/ \E block \in Blocks : Encode(block)

(* ======================= properties of the store ======================== *)
SourceCol == columns[CHOOSE i \in ColIdx : columns[i].isOriginal]
TargetIdx == {i \in ColIdx : ~columns[i].isOriginal}

\* C1: in every target column the lines stand in the order of the
\* fragments they stem from, whatever the order in which the translation
\* calls settle.
C1_PerColumnOrdering ==
    \A i \in TargetIdx :
        \A k, l \in 1..Len(columns[i].lines) :
            k < l => columns[i].lines[k].frag <= columns[i].lines[l].frag

\* C2: when no translation call is outstanding, line i of every target
\* column is the translation of line i of the source column.
C2_IndexCorrespondence ==
    inflight = {} =>
        \A i \in TargetIdx :
            \A k \in 1..Len(columns[i].lines) :
                /\ k <= Len(SourceCol.lines)
                /\ columns[i].lines[k].frag = SourceCol.lines[k].frag
                /\ columns[i].lines[k].base = SourceCol.lines[k].base

(* ====================== properties of the session ======================= *)
Released(h) == Len(handles[h]) = 3

\* C3: an error event on the current connection while recording is active
\* stops the capture: isLive becomes false and the capture handle is
\* released.
C3_ErrorStopsCapture ==
    [][\A c \in 1..Len(sockets) :
          (WsError(c) /\ c = wsRef /\ isLive)
              => (~isLive' /\ streamRef' = 0 /\ LiveHandles' = {})]_vars

\* C4: when the server closes the current connection while recording is
\* active, the capture is stopped and the connectivity status becomes
\* disconnected.
C4_DropStopsCapture ==
    [][\A c \in 1..Len(sockets) :
          (WsClose(c) /\ c = wsRef /\ sockets[c].state = "OPEN" /\ isLive)
              => (~wsConnected' /\ ~isLive' /\ streamRef' = 0)]_vars

\* C5: while a capture is active no step creates a connection or asks for
\* the microphone, and at any time at most one capture handle is live and
\* it is the one in streamRef.
C5_StartWhileCapturingNoop ==
    [][/\ isLive => (Len(sockets') = Len(sockets) /\ starts' \subseteq starts)
       /\ Cardinality(LiveHandles') <= 1
       /\ LiveHandles' \subseteq {streamRef'}]_vars

\* C6: when the microphone request of a start attempt is rejected, the
\* error is reported, a false isLive stays false and the connection opened
\* for the attempt is no longer connecting or open; once no start attempt
\* is pending, no connecting or open connection exists without a capture
\* handle.
C6_CaptureFailureTearsDown ==
    [][/\ \A a \in starts :
            MicDenied(a) => /\ lastAlert' = "mic"
                            /\ ~isLive => ~isLive'
                            /\ ~Active(sockets'[a.sock])
       /\ (starts' = {} /\ streamRef' = 0) => ActiveSockets' = {}]_vars

C6_Witness ==
    /\ lastAlert = "mic"
    /\ starts = {}
    /\ ~isLive /\ streamRef = 0
    /\ sockets # <<>>
    /\ sockets[Len(sockets)].state = "CLOSING"

\* C7: once the component is unmounted, no capture handle is live and no
\* connection is connecting or open.
C7_TeardownReleasesEverything ==
    ~mounted => (LiveHandles = {} /\ ActiveSockets = {})

\* C8: a step that stops a recording releases the handle held in streamRef
\* by disconnecting the processing node, then closing the audio context,
\* then stopping the tracks; after it streamRef and wsRef are empty, no
\* connection is connecting or open and isLive is false.
C8_StopReleasesInOrder ==
    [][(isLive /\ ~isLive')
          => /\ streamRef # 0
             /\ handles[streamRef] = <<>>
             /\ handles'[streamRef] = <<"proc", "ctx", "tracks">>
             /\ streamRef' = 0
             /\ wsRef' = 0
             /\ ActiveSockets' = {}]_vars

C8_Witness ==
    /\ ~isLive
    /\ streamRef = 0 /\ wsRef = 0
    /\ \E h \in 1..Len(handles) : Released(h)
    /\ \E c \in 1..Len(sockets) : sockets[c].state = "CLOSING"

\* C9: stopLive run twice gives the state that running it once gives, and
\* stopLive run while not capturing changes nothing: the steps that call it
\* then (a change of the source language, the unmount) leave connection
\* and capture as they are.
C9_StopIdempotent ==
    [][/\ \A live \in BOOLEAN :
            stopLive(stopLive(Sess, live), live) = stopLive(Sess, live)
       /\ ~isLive => stopLive(Sess, isLive) = Sess
       /\ (~isLive /\ (Unmount \/ \E lang \in SourceOptions : ChangeSrcLang(lang)))
             => UNCHANGED sessVars]_vars

C9_Witness ==
    /\ ~mounted
    /\ ~isLive
    /\ wsRef # 0 /\ sockets[wsRef].state = "OPEN"
    /\ \E h \in 1..Len(handles) : Released(h)

\* C10: at most one connection is connecting or open, it is the one in
\* wsRef, wsRef is empty or the connection created last, and a step that
\* creates a connection leaves no earlier connection connecting or open.
C10_AtMostOneActive ==
    [][/\ Cardinality(ActiveSockets') <= 1
       /\ ActiveSockets' \subseteq {wsRef'}
       /\ wsRef' \in {0, Len(sockets')}
       /\ Len(sockets') > Len(sockets)
             => /\ wsRef' = Len(sockets')
                /\ \A c \in 1..Len(sockets) : ~Active(sockets'[c])]_vars

C10_Witness ==
    /\ Len(sockets) >= 2
    /\ wsRef = Len(sockets)
    /\ Active(sockets[wsRef])
    /\ Cardinality(starts) >= 2

\* The connection the capture callback would use is open.
CurrentOpen == wsRef # 0 /\ sockets[wsRef].state = "OPEN"

\* C11 -- drop policy: frames are handed to the connection only in the step
\* that produces their block and only while the current connection is open;
\* a block produced in any other connection state adds no frame, then or
\* later, and no send ever throws.
C11_DropPolicy ==
    [][/\ sent' # sent =>
            /\ CurrentOpen
            /\ nBlocks' = nBlocks + 1
            /\ Len(sent') > Len(sent)
            /\ SubSeq(sent', 1, Len(sent)) = sent
            /\ \A k \in (Len(sent) + 1)..Len(sent') :
                   sent'[k].block = nBlocks' /\ sent'[k].sock = wsRef
       /\ (nBlocks' # nBlocks /\ ~CurrentOpen) => sent' = sent
       /\ ~sendError']_vars

C11_Witness ==
    /\ nBlocks >= 2
    /\ sent # <<>>
    /\ \A k \in 1..Len(sent) : sent[k].block >= 2
    /\ ~CurrentOpen

\* C12 -- send order: the frames sent are frames of generated blocks, each
\* sent at most once, in the order in which they were generated.
C12_SendOrder ==
    /\ \A k \in 1..Len(sent) :
          /\ sent[k].block \in 1..nBlocks
          /\ sent[k].off % 320 = 0
    /\ \A j, k \in 1..Len(sent) :
          j < k => \/ sent[j].block < sent[k].block
                   \/ /\ sent[j].block = sent[k].block
                      /\ sent[j].off < sent[k].off

C12_Witness ==
    /\ nBlocks >= 2
    /\ \E j, k \in 1..Len(sent) : sent[j].block < sent[k].block

\* C13 -- frame size: every frame sent has exactly 320 bytes.
C13_FrameSize ==
    \A k \in 1..Len(sent) : sent[k].size = 320


(* ================== properties of the inbound messages ================== *)
\* C14 -- translation fallback: when a translation call fails, exactly one
\* line, equal to the fragment's text, is appended to the column the call
\* was made for; no other column changes and no other call is affected.
C14_TranslationFallback ==
    [][\A t \in inflight :
          Settle(t, FALSE) =>
              /\ Len(columns') = Len(columns)
              /\ \A i \in ColIdx :
                    IF columns[i].uid = t.uid
                    THEN columns'[i] =
                            [columns[i] EXCEPT !.lines = Append(@,
                                [base |-> t.text, via |-> <<>>, frag |-> t.frag])]
                    ELSE columns'[i] = columns[i]
              /\ inflight' = inflight \ {t}]_vars

\* C15 -- fan-out set: a fragment starts exactly one translation call for
\* every target column present when it arrives, with that column's language
\* as target, and none for the source column; no column holds a line of a
\* fragment that arrived before the column was added.
C15_FanOutSet ==
    [][/\ nFrags' = nFrags + 1 =>
            /\ \A i \in ColIdx :
                  LET new == {t \in inflight' \ inflight : t.uid = columns[i].uid}
                  IN IF columns[i].isOriginal
                     THEN new = {}
                     ELSE /\ Cardinality(new) = 1
                          /\ \A t \in new : t.tgt = columns[i].lang /\ t.frag = nFrags'
            /\ \A t \in inflight' \ inflight :
                  \E i \in ColIdx : columns[i].uid = t.uid
       /\ nFrags' = nFrags => inflight' \subseteq inflight
       /\ \A i \in 1..Len(columns') :
             ~columns'[i].isOriginal =>
                 \A k \in 1..Len(columns'[i].lines) :
                     columns'[i].lines[k].frag > columns'[i].born]_vars

\* C16 -- column isolation on removal: a translation call that settles
\* after its column was removed changes no column, and the remove button of
\* a column removes that column and no other.
C16_RemovalIsolation ==
    [][/\ \A t \in inflight, ok \in BOOLEAN :
             (Settle(t, ok) /\ ~\E i \in ColIdx : columns[i].uid = t.uid)
                 => columns' = columns
       /\ \A i \in ColIdx :
             RemoveColumn(i) =>
                 columns' = [j \in 1..(Len(columns) - 1) |->
                                IF j < i THEN columns[j] ELSE columns[j + 1]]]_vars

\* C17 -- malformed inbound message: a message that cannot be parsed changes
\* no column, starts no translation call, leaves the connection and the
\* capture as they are; every fragment received is appended to the source
\* column whatever was discarded before it.
C17_MalformedDiscarded ==
    [][/\ nBad' # nBad =>
            /\ UNCHANGED <<columns, inflight, nFrags>>
            /\ UNCHANGED <<sockets, wsRef, wsConnected, handles, streamRef, isLive>>
       /\ nFrags' # nFrags =>
            Len(SourceCol'.lines) = Len(SourceCol.lines) + 1]_vars

C17_Witness ==
    /\ nBad >= 1
    /\ nFrags >= 1
    /\ CurrentOpen
    /\ isLive
    /\ LiveHandles # {}
    /\ Len(SourceCol.lines) = nFrags

\* C18 -- transcript shape: only a non-empty string, or an object with a
\* non-empty string text, yields a fragment; a message with a transcript of
\* any other shape appends nothing and starts no translation call.
C18_TranscriptShape ==
    [][\A c \in 1..Len(sockets), msg \in Messages :
          (WsMessage(c, msg) /\ ~(msg.kind \in {"string", "object"} /\ msg.text # ""))
              => UNCHANGED <<columns, inflight>>]_vars

\* C19 as stated -- source length invariant: the source column has at least
\* as many lines as fragments have been received.
C19_SourceLength ==
    Len(SourceCol.lines) >= nFrags

\* C19 as amended -- every fragment becomes the last line of the source
\* column in the step that handles its message, before any line of it
\* reaches a target column, and the source column loses lines only through
\* clear-all and delete-line.
C19_SourceAppendedOnReceipt ==
    [][/\ nFrags' = nFrags + 1 =>
            /\ Len(SourceCol'.lines) = Len(SourceCol.lines) + 1
            /\ SubSeq(SourceCol'.lines, 1, Len(SourceCol.lines)) = SourceCol.lines
            /\ SourceCol'.lines[Len(SourceCol'.lines)].frag = nFrags'
            /\ \A i \in 1..Len(columns') :
                  ~columns'[i].isOriginal =>
                      \A k \in 1..Len(columns'[i].lines) :
                          columns'[i].lines[k].frag # nFrags'
       /\ Len(SourceCol'.lines) < Len(SourceCol.lines) =>
            \/ ClearOutputs
            \/ \E i \in ColIdx :
                  /\ columns[i].isOriginal
                  /\ \E k \in 1..Len(columns[i].lines) : DeleteLine(i, k)]_vars

C19_Witness ==
    \E t \in inflight :
        \E k \in 1..Len(SourceCol.lines) : SourceCol.lines[k].frag = t.frag

\* C20 -- single source column: exactly one column is the source column,
\* whatever columns were added, removed, cleared or changed.
C20_SingleSource ==
    /\ Cardinality({i \in ColIdx : columns[i].isOriginal}) = 1
    /\ columns[1].isOriginal
    /\ columns[1].id = "original"

C20_Witness ==
    /\ NumTargets(columns) = 2
    /\ nEdits >= 3
    /\ SrcLangOf(columns) # "auto"
    /\ SourceCol.lines # <<>>

(* ===================== properties of the column set ===================== *)
\* C21 -- unique column ids: no two columns of the active set have the same
\* id, whatever the clock readings at which they were added.
C21_UniqueIds ==
    \A i, j \in ColIdx : i # j => columns[i].id # columns[j].id

\* C22 -- set-column-language clears the column: a language change of a
\* column, source or target, sets that column's language, empties that
\* column's lines and leaves every other column as it was.
C22_SetLanguageClears ==
    [][/\ \A i \in ColIdx, lang \in LanguageOptions :
             ChangeLang(i, lang) =>
                 /\ Len(columns') = Len(columns)
                 /\ columns'[i].lang = lang
                 /\ columns'[i].lines = <<>>
                 /\ \A j \in ColIdx \ {i} : columns'[j] = columns[j]
       /\ \A lang \in SourceOptions :
             ChangeSrcLang(lang) =>
                 /\ Len(columns') = Len(columns)
                 /\ \A j \in ColIdx :
                       IF columns[j].isOriginal
                       THEN columns'[j].lang = lang /\ columns'[j].lines = <<>>
                       ELSE columns'[j] = columns[j]]_vars

\* C23 -- no in-place reordering: whenever a step changes the lines of a
\* column, the new lines are the old ones with one line added at the end, or
\* with the line at one index taken out, or none at all.
C23_NoReordering ==
    [][\A i \in ColIdx, j \in 1..Len(columns') :
          columns[i].uid = columns'[j].uid =>
              LET old == columns[i].lines
                  new == columns'[j].lines
              IN \/ new = old
                 \/ new = <<>>
                 \/ /\ Len(new) = Len(old) + 1
                    /\ SubSeq(new, 1, Len(old)) = old
                 \/ /\ Len(new) = Len(old) - 1
                    /\ \E k \in 1..Len(old) :
                          \A m \in 1..Len(new) :
                              new[m] = IF m < k THEN old[m] ELSE old[m + 1]]_vars

C23_Witness ==
    /\ Len(SourceCol.lines) >= 1
    /\ SourceCol.lines[1].frag >= 2
    /\ \E i \in TargetIdx : columns[i].lines # <<>>

(* ==================== properties of the connection ====================== *)
\* C24 -- session source language is fixed: the source language a
\* connection was opened with never changes, and every translation call
\* started for a fragment received on a connection carries that language as
\* its source language, whatever the source column's language is by then.
C24_SessionLanguageFixed ==
    [][/\ Len(sockets') >= Len(sockets)
       /\ \A c \in 1..Len(sockets) : sockets'[c].srcLang = sockets[c].srcLang
       /\ \A c \in 1..Len(sockets), msg \in Messages :
             WsMessage(c, msg) =>
                 \A t \in inflight' \ inflight : t.src = sockets[c].srcLang]_vars

C24_Witness ==
    \E t \in inflight :
        /\ t.src # SrcLangOf(columns)
        /\ CurrentOpen
        /\ sockets[wsRef].srcLang = t.src

\* C25 -- stop does not cancel translations: stopping the capture leaves
\* every outstanding translation call outstanding; a call leaves the set
\* only by settling, and when it settles its line is appended to its column
\* if that column is still there.
C25_StopKeepsTranslations ==
    [][/\ (isLive /\ ~isLive') => inflight' = inflight
       /\ \A t \in inflight \ inflight' : \E ok \in BOOLEAN : Settle(t, ok)
       /\ \A t \in inflight, ok \in BOOLEAN :
             Settle(t, ok) =>
                 \A i \in ColIdx :
                     columns[i].uid = t.uid =>
                         /\ Len(columns'[i].lines) = Len(columns[i].lines) + 1
                         /\ columns'[i].lines[Len(columns'[i].lines)].frag = t.frag
                         /\ columns'[i].lines[Len(columns'[i].lines)].base = t.text]_vars

C25_Witness ==
    /\ ~isLive
    /\ wsRef = 0
    /\ ActiveSockets = {}
    /\ Len(sockets) >= 1
    /\ \E t \in inflight : \E i \in ColIdx : columns[i].uid = t.uid

\* C26 -- no automatic reconnect: a connection is created only by a step
\* that runs startLive (the start button, or the timer set by a change of
\* the source language); the close and error handlers create none and
\* schedule no start.
C26_NoAutoReconnect ==
    [][/\ Len(sockets') > Len(sockets) => (StartLive \/ TimerFire)
       /\ \A c \in 1..Len(sockets) :
             (WsClose(c) \/ WsError(c)) =>
                 /\ Len(sockets') = Len(sockets)
                 /\ starts' = starts
                 /\ timers' = timers]_vars

C26_Witness ==
    /\ isLive
    /\ Len(sockets) >= 1
    /\ sockets[Len(sockets)].state = "CLOSED"
    /\ ActiveSockets = {}

\* C27 -- close is idempotent: called in any reachable session state,
\* closeSocket ends with no connection held, the connection that was held
\* closing or closed, every other connection untouched and the connectivity
\* status false; calling it once more changes nothing.
C27_CloseIdempotent ==
    LET s1 == closeSocket(Sess)
    IN /\ s1.wsRef = 0
       /\ ~s1.wsConnected
       /\ Len(s1.sockets) = Len(sockets)
       /\ \A c \in 1..Len(sockets) :
             IF c = wsRef
             THEN s1.sockets[c].state \in {"CLOSING", "CLOSED"}
             ELSE s1.sockets[c] = sockets[c]
       /\ s1.isLive = isLive /\ s1.streamRef = streamRef /\ s1.handles = handles
       /\ closeSocket(s1) = s1

C27_Witness ==
    /\ wsRef = 0
    /\ ~wsConnected
    /\ \E c \in 1..Len(sockets) : sockets[c].state = "CLOSING"
    /\ \E c \in 1..Len(sockets) : sockets[c].state = "CLOSED"

(* ====================== properties of the encoder ======================= *)
\* C28 -- PCM encoding never wraps: the buffer has 2 bytes per sample, and
\* the little-endian 16-bit value of a sample above 1.0 is 32767, of a
\* sample below -1.0 it is -32768.
C28_PcmNeverWraps ==
    /\ Len(pcmOut) = 2 * Len(pcmIn)
    /\ \A k \in 1..Len(pcmIn) :
          LET u == pcmOut[2 * k - 1] + 256 * pcmOut[2 * k]
              v == IF u >= 32768 THEN u - 65536 ELSE u
          IN /\ pcmOut[2 * k - 1] \in 0..255
             /\ pcmOut[2 * k] \in 0..255
             /\ pcmIn[k] > 1000 => v = 32767
             /\ pcmIn[k] < -1000 => v = -32768

C28_Witness ==
    /\ \E k \in 1..Len(pcmIn) : pcmIn[k] > 1000
    /\ \E k \in 1..Len(pcmIn) : pcmIn[k] < -1000

\* C29 -- connectivity indicator matches the current connection:
\* wsConnected is true only while the connection held in wsRef is open, and
\* while that connection stays open and current the indicator stays true.
C29_IndicatorMatchesCurrent ==
    [][/\ wsConnected' => CurrentOpen'
       /\ (/\ wsConnected
           /\ CurrentOpen
           /\ wsRef' = wsRef
           /\ sockets'[wsRef].state = "OPEN") => wsConnected']_vars

\* C30 -- lines match the column's language: a translation call that
\* settles adds a line only to a column whose language, at that moment, is
\* the target language the call was made with.
C30_LinesMatchLanguage ==
    [][\A t \in inflight, ok \in BOOLEAN :
          Settle(t, ok) =>
              \A i \in ColIdx :
                  columns'[i].lines # columns[i].lines => columns[i].lang = t.tgt]_vars

(* ============== properties of edits made while work is in flight ======== *)
\* C31 -- clear is not undone by in-flight work: no column holds a line of a
\* fragment that was received before the last clear-all.
C31_ClearNotUndone ==
    \A i \in ColIdx :
        \A k \in 1..Len(columns[i].lines) :
            columns[i].lines[k].frag > clearedUpTo

(* ===================== properties of a start attempt ==================== *)
\* C32 -- source-language change restarts the session: a change of the
\* source language made while recording stops the recording, and when the
\* timer set by that change fires a new start attempt begins: a connection
\* is created and the microphone is requested.
C32_LanguageChangeRestarts ==
    [][/\ \A lang \in SourceOptions :
             (ChangeSrcLang(lang) /\ isLive) => (~isLive' /\ ActiveSockets' = {})
       /\ (TimerFire /\ Head(timers).live) =>
             /\ Len(sockets') = Len(sockets) + 1
             /\ Cardinality(starts') = Cardinality(starts) + 1
             /\ isProcessing']_vars

\* C33 -- session language equals the source column's language: every
\* connection is created with the language the source column has at that
\* moment.
C33_SessionLanguageCurrent ==
    [][Len(sockets') > Len(sockets) =>
          sockets'[Len(sockets')].srcLang = SrcLangOf(columns)]_vars

\* C34 -- recording implies a usable connection at start: when a start
\* attempt ends with recording active, the connection created for that
\* attempt is connecting or open.
C34_RecordingHasConnection ==
    [][\A a \in starts :
          MicGranted(a) => sockets[a.sock].state \in {"CONNECTING", "OPEN"}]_vars

\* C35 -- every translation lands exactly once: a call leaves the set of
\* outstanding calls only by settling; when it settles, exactly one line is
\* appended to the column it was made for, if that column is still there,
\* and no other column changes.
C35_LandsExactlyOnce ==
    [][/\ \A t \in inflight \ inflight' : \E ok \in BOOLEAN : Settle(t, ok)
       /\ \A t \in inflight, ok \in BOOLEAN :
             Settle(t, ok) =>
                 /\ t \notin inflight'
                 /\ Len(columns') = Len(columns)
                 /\ \A i \in ColIdx :
                       IF columns[i].uid = t.uid
                       THEN /\ Len(columns'[i].lines) = Len(columns[i].lines) + 1
                            /\ SubSeq(columns'[i].lines, 1, Len(columns[i].lines))
                                   = columns[i].lines
                            /\ columns'[i].lines[Len(columns'[i].lines)].frag = t.frag
                       ELSE columns'[i] = columns[i]]_vars

\* C36 -- start attempt terminates: the step in which the microphone request
\* of a start attempt settles clears isProcessing and leaves either a
\* recording with a capture handle stored, or no recording, no capture
\* handle and no connection held.
C36_StartAttemptTerminates ==
    [][\A a \in starts :
          (MicGranted(a) \/ MicDenied(a)) =>
              /\ a \notin starts'
              /\ ~isProcessing'
              /\ \/ isLive' /\ streamRef' # 0 /\ handles'[streamRef'] = <<>>
                 \/ ~isLive' /\ streamRef' = 0 /\ wsRef' = 0]_vars

C36_Witness ==
    /\ starts = {}
    /\ ~isProcessing
    /\ lastAlert = "mic"
    /\ ~isLive
    /\ wsRef = 0
    /\ streamRef = 0
    /\ Len(handles) >= 1

(* ========================= properties of the store ====================== *)
\* C37 -- target column limit: the active set never holds more than two
\* non-source columns, and add-column pressed when two targets exist leaves
\* the columns as they are.
C37_TargetLimit ==
    /\ [](NumTargets(columns) <= MaxTargets)
    /\ [][\A t \in 1..MaxNow :
             (AddColumn(t) /\ NumTargets(columns) = MaxTargets)
                 => columns' = columns]_vars

C37_Witness ==
    /\ NumTargets(columns) = MaxTargets
    /\ lastAlert = "max"

\* C38 -- delete-line frame: deleting line k of a column removes exactly
\* that line of that column and nothing when k is out of range; no other
\* column's lines, no column's language, and neither the session nor the
\* capture state changes.
C38_DeleteLineFrame ==
    [][\A i \in ColIdx :
          /\ deleteLine(columns, columns[i].id,
                        Len(columns[i].lines) + 1) = columns
          /\ \A k \in 1..Len(columns[i].lines) :
                DeleteLine(i, k) =>
                    /\ Len(columns') = Len(columns)
                    /\ columns'[i].lines =
                           SubSeq(columns[i].lines, 1, k - 1)
                               \o SubSeq(columns[i].lines, k + 1,
                                         Len(columns[i].lines))
                    /\ \A j \in ColIdx :
                          /\ j # i => columns'[j].lines = columns[j].lines
                          /\ columns'[j].lang = columns[j].lang
                    /\ UNCHANGED sessVars]_vars

(* =========================== specifications ============================ *)
\* The session alone: the actions left out leave every session variable
\* unchanged.
SessionNext ==
    \/ StartLive
    \/ TimerFire
    \/ \E a \in starts : MicGranted(a)
    \/ \E a \in starts : MicDenied(a)
    \/ StopLive
    \/ Unmount
    \/ \E c \in 1..Len(sockets) : WsOpen(c)
    \/ \E c \in 1..Len(sockets) : WsClose(c)
    \/ \E c \in 1..Len(sockets) : WsError(c)
    \/ \E lang \in SourceOptions : ChangeSrcLang(lang)

\* The column store under recordings that start and stop normally.
StoreNext ==
    \/ StartLive
    \/ \E a \in starts : MicGranted(a)
    \/ StopLive
    \/ \E c \in 1..Len(sockets) : WsOpen(c)
    \/ \E c \in 1..Len(sockets), msg \in TextMessages : WsMessage(c, msg)
    \/ \E t \in inflight, ok \in BOOLEAN : Settle(t, ok)
    \/ ClearOutputs
    \/ \E t \in 1..MaxNow : AddColumn(t)
    \/ \E i \in ColIdx : RemoveColumn(i)
    \/ \E i \in ColIdx, lang \in LanguageOptions : ChangeLang(i, lang)
    \/ \E i \in ColIdx : \E k \in 1..Len(columns[i].lines) : DeleteLine(i, k)

\* The inbound wire: messages of every shape on the open connection.
WireNext ==
    \/ StartLive
    \/ \E a \in starts : MicGranted(a)
    \/ \E c \in 1..Len(sockets) : WsOpen(c)
    \/ \E c \in 1..Len(sockets), msg \in Messages : WsMessage(c, msg)
    \/ \E t \in inflight, ok \in BOOLEAN : Settle(t, ok)
    \/ \E t \in 1..MaxNow : AddColumn(t)

\* The column set under every column operation of the page.
EditNext ==
    \/ StartLive
    \/ \E a \in starts : MicGranted(a)
    \/ \E c \in 1..Len(sockets) : WsOpen(c)
    \/ \E c \in 1..Len(sockets), msg \in TextMessages : WsMessage(c, msg)
    \/ ClearOutputs
    \/ \E t \in 1..MaxNow : AddColumn(t)
    \/ \E i \in ColIdx : RemoveColumn(i)
    \/ \E i \in ColIdx, lang \in LanguageOptions : ChangeLang(i, lang)
    \/ \E lang \in SourceOptions : ChangeSrcLang(lang)
    \/ \E i \in ColIdx : \E k \in 1..Len(columns[i].lines) : DeleteLine(i, k)

\* The encoder alone, on blocks of every sample value.
PcmNext ==
    \E block \in Blocks : Encode(block)

\* The audio path: the session together with the capture callback.
AudioNext ==
    \/ StartLive
    \/ \E a \in starts : MicGranted(a)
    \/ \E a \in starts : MicDenied(a)
    \/ StopLive
    \/ Unmount
    \/ \E c \in 1..Len(sockets) : WsOpen(c)
    \/ \E c \in 1..Len(sockets) : WsClose(c)
    \/ \E c \in 1..Len(sockets) : WsError(c)
    \/ \E h \in 1..Len(handles), rate \in SampleRates : AudioProcess(h, rate)

Spec == Init /\ [][Next]_vars
AudioSpec == Init /\ [][AudioNext]_vars
WireSpec == Init /\ [][WireNext]_vars
EditSpec == Init /\ [][EditNext]_vars
PcmSpec == Init /\ [][PcmNext]_vars
SessionSpec == Init /\ [][SessionNext]_vars
StoreSpec == Init /\ [][StoreNext]_vars

====
